---- MODULE Spec2Model ----
(***************************************************************************)
(* Transposition table of src/src/jackfish/tp.js: the key table hashes,    *)
(* the function hash, and the two caches LRU and Cache keyed by a hash     *)
(* [low, high].                                                            *)
(*                                                                         *)
(* A JavaScript value that may be undefined is written as a sequence:      *)
(* <<v>> is the defined value v, <<>> is undefined.  An Array used as a    *)
(* sparse store (arr[high] = val) is a function whose DOMAIN is the set of *)
(* indices that were assigned; a Map is the sequence of its [key, value]   *)
(* records in insertion order, which is the order Map iterates in.         *)
(***************************************************************************)
EXTENDS Integers, Sequences, FiniteSets, TLC

\* ---- bounds of the model ----
MaxLow == 2
MaxSize == 2
NumSquares == 2              \* squares of the board hashed; the code has 64
KeyBits == 3                 \* width of a key; the code has 32

\* ---- constants of the program ----
NumFiles == 8                \* length of hashes.epFile
Seed == 27102                \* seed of the generator

Lows == 0..MaxLow            \* hash[0]
Highs == {0, 1}              \* hash[1]
Keys == Lows \X Highs
Entries == {0, 1}            \* type Entry = Move | number; the scores 0 and 1
OneEntry == {0}              \* where the entry stored plays no part: the score 0
OneHigh == {0}               \* where the place in the group plays no part
SizeArgs == 0..MaxSize       \* the constructor's argument; nothing restricts it

undefined == <<>>

VARIABLES
  impl,          \* which class was constructed: "LRU" or "Cache"
  maxSize,       \* this.maxSize
  map,           \* LRU: this.map
  cache,         \* Cache: this.cache
  currentSize,   \* Cache: this.currentSize
  last,          \* the most recent call: its name, arguments and return value
  pre,           \* the fields as they were when that call started
  touch,         \* history: the lows in the order of the last call naming them
  added,         \* history: the hashes that add was ever called with
  latest,        \* history: the entry most recently added at each hash
  hashes,        \* the exported object hashes
  draws,         \* number of integers drawn from the generator
  loaded,        \* number of pieces the forEach callback has run for
  pos,           \* the Position the caller holds
  hcalls,        \* history: the last two calls of hash, each [pos, ret]
  memo           \* history: what the first call of hash on a probe position returned

cvars == <<impl, maxSize, map, cache, currentSize, last, pre, touch, added, latest>>
hvars == <<hashes, draws, loaded, pos, hcalls, memo>>
vars == <<impl, maxSize, map, cache, currentSize, last, pre, touch, added, latest,
          hashes, draws, loaded, pos, hcalls, memo>>

\* ---- Array used as a sparse store ----
\* as ArrRead, with a falsy entry taken for a missing one (arr[high] || undefined)
ArrRead_falsy(arr, high) ==
  IF high \in DOMAIN arr /\ arr[high] # 0 THEN <<arr[high]>> ELSE undefined

\* arr[high]
ArrRead(arr, high) == IF high \in DOMAIN arr THEN <<arr[high]>> ELSE undefined

\* arr[high] = val
ArrWrite(arr, high, val) ==
  [h \in (DOMAIN arr) \cup {high} |-> IF h = high THEN val ELSE arr[h]]

\* ---- Map ----
MapKeys(m) == {m[i].key : i \in DOMAIN m}

MapHas(m, k) == k \in MapKeys(m)

\* this.map.get(k), for a key that is present
MapGet(m, k) == m[CHOOSE i \in DOMAIN m : m[i].key = k].arr

\* this.map.delete(k)
MapDelete(m, k) == SelectSeq(m, LAMBDA e : e.key # k)

\* this.map.set(k, arr): a present key keeps its place, a new key goes last
MapSet(m, k, arr) ==
  IF MapHas(m, k)
  THEN [i \in DOMAIN m |-> IF m[i].key = k THEN [key |-> k, arr |-> arr] ELSE m[i]]
  ELSE Append(m, [key |-> k, arr |-> arr])

\* as MapDeleteFirst, deleting one entry of the first group and the group only
\* when that was its last entry
MapDeleteFirst_oneEntry(m) ==
  IF m = <<>> THEN m
  ELSE LET arr == m[1].arr
           h == CHOOSE x \in DOMAIN arr : TRUE
           rest == [y \in (DOMAIN arr) \ {h} |-> arr[y]]
       IN  IF DOMAIN rest = {} THEN Tail(m)
           ELSE [m EXCEPT ![1] = [key |-> m[1].key, arr |-> rest]]

\* this.map.delete(this.map.keys().next().value)
MapDeleteFirst(m) == IF m = <<>> THEN m ELSE MapDelete(m, m[1].key)

\* ---- class LRU ----
\* as LRU_size, counting the entries of every group
RECURSIVE EntryCount(_)
EntryCount(m) ==
  IF m = <<>> THEN 0 ELSE Cardinality(DOMAIN m[1].arr) + EntryCount(Tail(m))

LRU_size_entries(m) == EntryCount(m)

LRU_size(m) == Len(m)

\* the value LRU.get returns
LRU_get(m, low, high) ==
  IF MapHas(m, low) THEN ArrRead(MapGet(m, low), high) ELSE undefined

\* as LRU_get_map, with the delete and without the set that follows it
LRU_get_map_deleteOnly(m, low) == MapDelete(m, low)

\* as LRU_get_map, without the delete and set that refresh the group
LRU_get_map_noRefresh(m, low) == m

\* this.map after LRU.get
LRU_get_map(m, low) ==
  IF MapHas(m, low)
  THEN MapSet(MapDelete(m, low), low, MapGet(m, low))
  ELSE m

\* this.map after the if/else of LRU.add
LRU_add_insert(m, low, high, val) ==
  IF MapHas(m, low)
  THEN LET arr == ArrWrite(MapGet(m, low), high, val)
       IN  MapSet(MapDelete(m, low), low, arr)
  ELSE MapSet(m, low, ArrWrite(<<>>, high, val))

\* as LRU_add, without the eviction
LRU_add_noEvict(m, max, low, high, val) == LRU_add_insert(m, low, high, val)

\* as LRU_add, making room before the insertion whenever the map is full
LRU_add_evictFirst(m, max, low, high, val) ==
  LRU_add_insert(IF LRU_size(m) >= max THEN MapDeleteFirst(m) ELSE m, low, high, val)

\* this.map after LRU.add
LRU_add(m, max, low, high, val) ==
  LET m1 == LRU_add_insert(m, low, high, val)
  IN  IF LRU_size(m1) > max THEN MapDeleteFirst(m1) ELSE m1

\* ---- class Cache ----
Cache_size(cur) == cur

\* as Cache_get, looking the entry up by low alone
Cache_get_lowOnly(c, low, high) ==
  IF low \in DOMAIN c
  THEN <<c[low][CHOOSE h \in DOMAIN c[low] : TRUE]>>
  ELSE undefined

\* the value Cache.get returns
Cache_get(c, low, high) ==
  IF low \in DOMAIN c THEN ArrRead(c[low], high) ELSE undefined

\* as Cache_add_reset, resetting only once the count has passed maxSize
Cache_add_reset_whenOver(c, cur, max) ==
  IF cur > max THEN [cache |-> <<>>, currentSize |-> 0]
               ELSE [cache |-> c, currentSize |-> cur]

\* as Cache_add_reset, resetting the count and keeping the entries
Cache_add_reset_countOnly(c, cur, max) ==
  IF cur = max THEN [cache |-> c, currentSize |-> 0]
               ELSE [cache |-> c, currentSize |-> cur]

\* [cache, currentSize] after the reset at the start of Cache.add
Cache_add_reset(c, cur, max) ==
  IF cur = max THEN [cache |-> <<>>, currentSize |-> 0]
               ELSE [cache |-> c, currentSize |-> cur]

\* as Cache_add, counting every add as a new entry
Cache_add_alwaysCount(c, cur, max, low, high, val) ==
  LET r == Cache_add_reset(c, cur, max)
      c1 == r.cache
  IN  [cache |-> [l \in (DOMAIN c1) \cup {low} |->
                    IF l = low
                    THEN ArrWrite(IF low \in DOMAIN c1 THEN c1[low] ELSE <<>>, high, val)
                    ELSE c1[l]],
       currentSize |-> r.currentSize + 1]

\* as Cache_add, resetting only when the add is of a new entry
Cache_add_keepOnOverwrite(c, cur, max, low, high, val) ==
  LET r == IF Cache_get(c, low, high) # undefined
           THEN [cache |-> c, currentSize |-> cur]
           ELSE Cache_add_reset(c, cur, max)
      c1 == r.cache
      n1 == r.currentSize
  IN  IF low \in DOMAIN c1
      THEN [cache |-> [c1 EXCEPT ![low] = ArrWrite(c1[low], high, val)],
            currentSize |-> IF ArrRead(c1[low], high) = undefined THEN n1 + 1 ELSE n1]
      ELSE [cache |-> [l \in (DOMAIN c1) \cup {low} |->
                         IF l = low THEN ArrWrite(<<>>, high, val) ELSE c1[l]],
            currentSize |-> n1 + 1]

\* [cache, currentSize] after Cache.add
Cache_add(c, cur, max, low, high, val) ==
  LET r == Cache_add_reset(c, cur, max)
      c1 == r.cache
      n1 == r.currentSize
  IN  IF low \in DOMAIN c1
      THEN [cache |-> [c1 EXCEPT ![low] = ArrWrite(c1[low], high, val)],
            currentSize |-> IF ArrRead(c1[low], high) = undefined THEN n1 + 1 ELSE n1]
      ELSE [cache |-> [l \in (DOMAIN c1) \cup {low} |->
                         IF l = low THEN ArrWrite(<<>>, high, val) ELSE c1[l]],
            currentSize |-> n1 + 1]

\* ---- the generator ----
\* random-js' mt19937 seeded once; stood in for by a seeded multiplicative
\* congruential generator: the n-th integer drawn depends on Seed and n alone.
RECURSIVE PowMod(_, _, _)
PowMod(b, n, m) ==
  IF n = 0 THEN 1
  ELSE LET h == PowMod(b, n \div 2, m)
           sq == (h * h) % m
       IN  IF n % 2 = 1 THEN (sq * b) % m ELSE sq

\* state of the generator after n draws
RandState(n) == ((Seed % 32749) * PowMod(75, n, 32749)) % 32749

\* rand(): the n-th draw, a signed integer of KeyBits bits
rand(n) == ((RandState(n + 1) \div 16) % (2 ^ KeyBits)) - 2 ^ (KeyBits - 1)

\* make(): [rand(), rand()], the draws n and n + 1
make(n) == <<rand(n), rand(n + 1)>>

\* ---- declarations.js and Position.js ----
pieces == <<"P", "k">>
WHITE == "w"
BLACK == "b"
Empty == ""
Squares == 0..(NumSquares - 1)
Files == 0..(NumFiles - 1)
PieceSet == {pieces[i] : i \in DOMAIN pieces}
EpValues == {-1, 1, NumFiles + 1}      \* none, a square of file B, the one above it

Positions ==
  [board : [Squares -> PieceSet \cup {Empty}],
   turn : {WHITE, BLACK},
   wc : [0..1 -> BOOLEAN],
   bc : [0..1 -> BOOLEAN],
   ep : EpValues]

StartPos ==
  [board |-> [i \in Squares |-> Empty],
   turn |-> WHITE,
   wc |-> [i \in 0..1 |-> TRUE],
   bc |-> [i \in 0..1 |-> TRUE],
   ep |-> -1]

\* a position with every feature changed from StartPos
FarPos ==
  [board |-> [i \in Squares |-> pieces[(i % Len(pieces)) + 1]],
   turn |-> BLACK,
   wc |-> [i \in 0..1 |-> FALSE],
   bc |-> [i \in 0..1 |-> i = 1],
   ep |-> NumFiles + 1]

\* the positions whose first hash is remembered
ProbePositions == {StartPos, FarPos}

\* ---- operator ^ on signed integers of KeyBits bits ----
ToUnsigned(a) == a % (2 ^ KeyBits)

ToSigned(u) == IF u >= 2 ^ (KeyBits - 1) THEN u - 2 ^ KeyBits ELSE u

RECURSIVE XorBits(_, _, _)
XorBits(a, b, k) ==
  IF k = 0 THEN 0
  ELSE ((a + b) % 2) + 2 * XorBits(a \div 2, b \div 2, k - 1)

\* the signed integers of KeyBits bits
KeyRange == (0 - 2 ^ (KeyBits - 1))..(2 ^ (KeyBits - 1) - 1)

\* a ^ b for every pair of keys, computed once
XorTable ==
  [a \in KeyRange |-> [b \in KeyRange |->
     ToSigned(XorBits(ToUnsigned(a), ToUnsigned(b), KeyBits))]]

Xor(a, b) == XorTable[a][b]

\* ---- initialize hashes array ----
\* export const hashes = {}
EmptyHashes == [piece |-> <<>>, turn |-> <<>>, wc |-> <<>>, bc |-> <<>>, epFile |-> <<>>]

\* draws of one run of the forEach callback
DrawsPerPiece == 2 * (NumSquares + 2 + 2 + 2 + NumFiles)

\* hashes after the forEach callback for piece p, the generator being at draw n
hashes_forEach(h, n, p) ==
  LET n1 == n + 2 * NumSquares
  IN  [piece |-> [q \in (DOMAIN h.piece) \cup {p} |->
                    IF q = p THEN [i \in Squares |-> make(n + 2 * i)]
                             ELSE h.piece[q]],
       turn |-> [c \in {WHITE, BLACK} |-> IF c = WHITE THEN make(n1) ELSE make(n1 + 2)],
       wc |-> [i \in 0..1 |-> make(n1 + 4 + 2 * i)],
       bc |-> [i \in 0..1 |-> make(n1 + 8 + 2 * i)],
       epFile |-> [i \in Files |-> make(n1 + 12 + 2 * i)]]

\* the keys of hashes the callback assigns for piece p
AssignedFor(p) ==
  {<<"piece", p, i>> : i \in Squares}
    \cup {<<"turn", WHITE, 0>>, <<"turn", BLACK, 0>>}
    \cup {<<"wc", "", i>> : i \in 0..1}
    \cup {<<"bc", "", i>> : i \in 0..1}
    \cup {<<"epFile", "", i>> : i \in Files}

\* every key of hashes: one per feature of a position
Features == UNION {AssignedFor(pieces[k]) : k \in DOMAIN pieces}

\* hashes and draws once the module is loaded
RECURSIVE LoadedAfter(_)
LoadedAfter(k) ==
  IF k = 0 THEN [hashes |-> EmptyHashes, draws |-> 0]
  ELSE LET st == LoadedAfter(k - 1)
       IN  [hashes |-> hashes_forEach(st.hashes, st.draws, pieces[k]),
            draws |-> st.draws + DrawsPerPiece]

Loaded == LoadedAfter(Len(pieces))

\* ---- function hash ----
\* as applyHashes, adding instead of xoring
applyHashes_add(acc, lowAndHigh) ==
  <<ToSigned((ToUnsigned(acc[1]) + ToUnsigned(lowAndHigh[1])) % (2 ^ KeyBits)),
    ToSigned((ToUnsigned(acc[2]) + ToUnsigned(lowAndHigh[2])) % (2 ^ KeyBits))>>

\* applyHashes: low ^= lowAndHigh[0]; high ^= lowAndHigh[1]
applyHashes(acc, lowAndHigh) ==
  <<Xor(acc[1], lowAndHigh[1]), Xor(acc[2], lowAndHigh[2])>>

\* as hash_start, low and high being kept from the call before
hash_start_kept ==
  IF hcalls = <<>> THEN <<0, 0>> ELSE hcalls[Len(hcalls)].ret

\* let low = 0; let high = 0
hash_start == <<0, 0>>

\* the loop over the squares, from square i on
RECURSIVE hash_board(_, _, _, _)
hash_board(h, p, acc, i) ==
  IF i >= NumSquares THEN acc
  ELSE hash_board(h, p,
                  IF p.board[i] # Empty THEN applyHashes(acc, h.piece[p.board[i]][i])
                                        ELSE acc,
                  i + 1)

\* as hash_castling, with bc[0] tested and applied in both lines of bc
hash_castling_slip(h, p, acc) ==
  LET a1 == IF p.wc[0] THEN applyHashes(acc, h.wc[0]) ELSE acc
      a2 == IF p.wc[1] THEN applyHashes(a1, h.wc[1]) ELSE a1
      a3 == IF p.bc[0] THEN applyHashes(a2, h.bc[0]) ELSE a2
  IN  IF p.bc[0] THEN applyHashes(a3, h.bc[0]) ELSE a3

\* the four lines of the castling rights
hash_castling(h, p, acc) ==
  LET a1 == IF p.wc[0] THEN applyHashes(acc, h.wc[0]) ELSE acc
      a2 == IF p.wc[1] THEN applyHashes(a1, h.wc[1]) ELSE a1
      a3 == IF p.bc[0] THEN applyHashes(a2, h.bc[0]) ELSE a2
  IN  IF p.bc[1] THEN applyHashes(a3, h.bc[1]) ELSE a3

\* hash(pos), reading the table h
hash(h, p) ==
  LET a1 == applyHashes(hash_start, h.turn[p.turn])
      a2 == hash_board(h, p, a1, 0)
      a3 == hash_castling(h, p, a2)
  IN  IF p.ep # -1 THEN applyHashes(a3, h.epFile[p.ep % NumFiles]) ELSE a3

\* ---- the state machine ----
Snapshot == [map |-> map, cache |-> cache, currentSize |-> currentSize, touch |-> touch]

Init ==
  /\ impl \in {"LRU", "Cache"}
  /\ maxSize \in SizeArgs
  /\ map = <<>>
  /\ cache = <<>>
  /\ currentSize = 0
  /\ last = [op |-> "new", low |-> 0, high |-> 0, val |-> undefined, ret |-> undefined]
  /\ pre = [map |-> <<>>, cache |-> <<>>, currentSize |-> 0, touch |-> <<>>]
  /\ touch = <<>>
  /\ added = {}
  /\ latest = <<>>
  /\ hashes = Loaded.hashes
  /\ draws = Loaded.draws
  /\ loaded = Len(pieces)
  /\ pos = StartPos
  /\ hcalls = <<>>
  /\ memo = <<>>

LRUGet(low, high) ==
  /\ impl = "LRU"
  /\ map' = LRU_get_map(map, low)
  /\ last' = [op |-> "get", low |-> low, high |-> high, val |-> undefined,
              ret |-> LRU_get(map, low, high)]
  /\ pre' = Snapshot
  /\ UNCHANGED <<impl, maxSize, cache, currentSize>>
  /\ UNCHANGED hvars

LRUAdd(low, high, val) ==
  /\ impl = "LRU"
  /\ map' = LRU_add(map, maxSize, low, high, val)
  /\ last' = [op |-> "add", low |-> low, high |-> high, val |-> <<val>>,
              ret |-> undefined]
  /\ pre' = Snapshot
  /\ UNCHANGED <<impl, maxSize, cache, currentSize>>
  /\ UNCHANGED hvars

CacheGet(low, high) ==
  /\ impl = "Cache"
  /\ last' = [op |-> "get", low |-> low, high |-> high, val |-> undefined,
              ret |-> Cache_get(cache, low, high)]
  /\ pre' = Snapshot
  /\ UNCHANGED <<impl, maxSize, map, cache, currentSize>>
  /\ UNCHANGED hvars

CacheAdd(low, high, val) ==
  /\ impl = "Cache"
  /\ LET r == Cache_add(cache, currentSize, maxSize, low, high, val)
     IN  /\ cache' = r.cache
         /\ currentSize' = r.currentSize
  /\ last' = [op |-> "add", low |-> low, high |-> high, val |-> <<val>>,
              ret |-> undefined]
  /\ pre' = Snapshot
  /\ UNCHANGED <<impl, maxSize, map>>
  /\ UNCHANGED hvars

\* history of touches: the low of the call goes last, tagged with the call
Touched(t, low, op) ==
  Append(SelectSeq(t, LAMBDA e : e.low # low), [low |-> low, by |-> op])

NoHistory == UNCHANGED <<touch, added, latest>>

\* the highs a caller adds under a low where the set of added hashes is kept:
\* a group of two under low 0, groups of one under the others
HighsAt(low) == IF low = 0 THEN Highs ELSE OneHigh

\* the entries a caller adds under a low: two that differ under low 0, where
\* an overwrite is told from the entry it replaced, one under the others
EntriesAt(low) == IF low = 0 THEN Entries ELSE OneEntry

Next ==
  \/ \E low \in Lows, high \in Highs : LRUGet(low, high) /\ NoHistory
  \/ \E low \in Lows, high \in Highs :
       \E val \in EntriesAt(low) : LRUAdd(low, high, val) /\ NoHistory
  \/ \E low \in Lows, high \in Highs : CacheGet(low, high) /\ NoHistory
  \/ \E low \in Lows, high \in Highs :
       \E val \in EntriesAt(low) : CacheAdd(low, high, val) /\ NoHistory

Spec == Init /\ [][Next]_vars

\* The LRU with the history of touches kept.
InitLRU == Init /\ impl = "LRU"

NextTouch ==
  \/ \E low \in Lows, high \in Highs :
       LRUGet(low, high) /\ touch' = Touched(touch, low, "get") /\ UNCHANGED <<added, latest>>
  \/ \E low \in Lows, high \in OneHigh, val \in OneEntry :
       LRUAdd(low, high, val) /\ touch' = Touched(touch, low, "add") /\ UNCHANGED <<added, latest>>

SpecTouch == InitLRU /\ [][NextTouch]_vars

\* Either cache with the history of added hashes kept.
NextAdded ==
  \/ \E low \in Lows, high \in Highs :
       LRUGet(low, high) /\ UNCHANGED <<touch, added, latest>>
  \/ \E low \in Lows, val \in OneEntry :
     \E high \in HighsAt(low) :
       LRUAdd(low, high, val) /\ added' = added \cup {<<low, high>>} /\ UNCHANGED <<touch, latest>>
  \/ \E low \in Lows, high \in Highs :
       CacheGet(low, high) /\ UNCHANGED <<touch, added, latest>>
  \/ \E low \in Lows, val \in OneEntry :
     \E high \in HighsAt(low) :
       CacheAdd(low, high, val) /\ added' = added \cup {<<low, high>>} /\ UNCHANGED <<touch, latest>>

SpecAdded == Init /\ [][NextAdded]_vars

\* An LRU and a Cache of one maxSize, given the same calls in the same order.
BothSizes == 1..(MaxSize + 1)

InitBoth ==
  /\ impl = "both"
  /\ maxSize \in BothSizes
  /\ map = <<>>
  /\ cache = <<>>
  /\ currentSize = 0
  /\ last = [op |-> "new", low |-> 0, high |-> 0, val |-> undefined,
             ret |-> undefined, retCache |-> undefined]
  /\ pre = [map |-> <<>>, cache |-> <<>>, currentSize |-> 0, touch |-> <<>>]
  /\ touch = <<>>
  /\ added = {}
  /\ latest = <<>>
  /\ hashes = Loaded.hashes
  /\ draws = Loaded.draws
  /\ loaded = Len(pieces)
  /\ pos = StartPos
  /\ hcalls = <<>>
  /\ memo = <<>>

\* lru.get([low, high]) and cache.get([low, high])
BothGet(low, high) ==
  /\ impl = "both"
  /\ map' = LRU_get_map(map, low)
  /\ last' = [op |-> "get", low |-> low, high |-> high, val |-> undefined,
              ret |-> LRU_get(map, low, high),
              retCache |-> Cache_get(cache, low, high)]
  /\ UNCHANGED <<impl, maxSize, cache, currentSize, pre, touch, added, latest>>
  /\ UNCHANGED hvars

\* lru.add([low, high], val) and cache.add([low, high], val); the calls stop
\* with the add that brings the number of hashes added to maxSize
BothAdd(low, high, val) ==
  /\ impl = "both"
  /\ Cardinality(added \cup {<<low, high>>}) <= maxSize
  /\ map' = LRU_add(map, maxSize, low, high, val)
  /\ LET r == Cache_add(cache, currentSize, maxSize, low, high, val)
     IN  /\ cache' = r.cache
         /\ currentSize' = r.currentSize
  /\ last' = [op |-> "add", low |-> low, high |-> high, val |-> <<val>>,
              ret |-> undefined, retCache |-> undefined]
  /\ added' = added \cup {<<low, high>>}
  /\ latest' = [k \in (DOMAIN latest) \cup {<<low, high>>} |->
                  IF k = <<low, high>> THEN val ELSE latest[k]]
  /\ UNCHANGED <<impl, maxSize, pre, touch>>
  /\ UNCHANGED hvars

NextBoth ==
  \/ \E low \in Lows, high \in Highs : BothGet(low, high)
  \/ \E low \in Lows, high \in Highs :
       \E val \in EntriesAt(low) : BothAdd(low, high, val)

SpecBoth == InitBoth /\ [][NextBoth]_vars

\* The module being loaded, then hash called on the positions a caller makes.
InitHash ==
  /\ impl = "none"
  /\ maxSize = 0
  /\ map = <<>>
  /\ cache = <<>>
  /\ currentSize = 0
  /\ last = [op |-> "new", low |-> 0, high |-> 0, val |-> undefined, ret |-> undefined]
  /\ pre = [map |-> <<>>, cache |-> <<>>, currentSize |-> 0, touch |-> <<>>]
  /\ touch = <<>>
  /\ added = {}
  /\ latest = <<>>
  /\ hashes = EmptyHashes
  /\ draws = 0
  /\ loaded = 0
  /\ pos = StartPos
  /\ hcalls = <<>>
  /\ memo = <<>>

ModuleLoaded == loaded = Len(pieces)

\* hash was called on the position as it is now
Hashed == hcalls # <<>> /\ hcalls[Len(hcalls)].pos = pos

\* the callback of pieces.forEach, for the next piece
ForEachPiece ==
  /\ loaded < Len(pieces)
  /\ hashes' = hashes_forEach(hashes, draws, pieces[loaded + 1])
  /\ draws' = draws + DrawsPerPiece
  /\ loaded' = loaded + 1
  /\ UNCHANGED <<pos, hcalls, memo>>
  /\ UNCHANGED cvars

\* the positions a caller makes of p by changing one feature or none
Neighbours(p) ==
  {p}
    \cup {[p EXCEPT !.board[i] = c] : i \in Squares, c \in PieceSet \cup {Empty}}
    \cup {[p EXCEPT !.turn = IF p.turn = WHITE THEN BLACK ELSE WHITE]}
    \cup {[p EXCEPT !.wc[i] = ~p.wc[i]] : i \in 0..1}
    \cup {[p EXCEPT !.bc[i] = ~p.bc[i]] : i \in 0..1}
    \cup {[p EXCEPT !.ep = e] : e \in EpValues}

\* a call hash(p)
HashCall(p) ==
  /\ ModuleLoaded
  /\ pos' = p
  /\ hcalls' = (IF Len(hcalls) < 2 THEN hcalls ELSE Tail(hcalls))
                 \o <<[pos |-> p, ret |-> hash(hashes, p)]>>
  /\ memo' = IF p \in ProbePositions /\ p \notin DOMAIN memo
             THEN [q \in (DOMAIN memo) \cup {p} |->
                     IF q = p THEN hash(hashes, p) ELSE memo[q]]
             ELSE memo
  /\ UNCHANGED <<hashes, draws, loaded>>
  /\ UNCHANGED cvars

\* the first call is on the position the search starts from, every later one
\* on a position one change away from the last
NextHash ==
  \/ ForEachPiece
  \/ \E p \in (IF hcalls = <<>> THEN {pos} ELSE Neighbours(pos)) : HashCall(p)

SpecHash == InitHash /\ [][NextHash]_vars

\* ---- the fingerprint as the specification states it ----
\* the key-pair of a feature
KeyOf(h, f) ==
  CASE f[1] = "piece" -> h.piece[f[2]][f[3]]
    [] f[1] = "turn" -> h.turn[f[2]]
    [] f[1] = "wc" -> h.wc[f[3]]
    [] f[1] = "bc" -> h.bc[f[3]]
    [] f[1] = "epFile" -> h.epFile[f[3]]

\* the features of a position: side to move, occupied squares, castling rights
\* held, en-passant file
ActiveFeatures(p) ==
  {<<"turn", p.turn, 0>>}
    \cup {<<"piece", p.board[i], i>> : i \in {j \in Squares : p.board[j] # Empty}}
    \cup {<<"wc", "", i>> : i \in {j \in 0..1 : p.wc[j]}}
    \cup {<<"bc", "", i>> : i \in {j \in 0..1 : p.bc[j]}}
    \cup (IF p.ep = -1 THEN {} ELSE {<<"epFile", "", p.ep % NumFiles>>})

\* bit b of the two's complement of a
BitOf(a, b) == (ToUnsigned(a) \div (2 ^ b)) % 2

RECURSIVE SumBits(_, _, _, _)
SumBits(h, F, half, b) ==
  IF b < 0 THEN 0
  ELSE (2 ^ b) * (Cardinality({f \in F : BitOf(KeyOf(h, f)[half], b) = 1}) % 2)
         + SumBits(h, F, half, b - 1)

\* the xor of the keys of the features F, bit by bit: a bit is set when an odd
\* number of the keys have it set
XorOfFeatures(h, F) ==
  <<ToSigned(SumBits(h, F, 1, KeyBits - 1)), ToSigned(SumBits(h, F, 2, KeyBits - 1))>>

SymDiff(A, B) == (A \ B) \cup (B \ A)

\* ---- what a caller observes ----
\* get(hash) in the current state, without the call's effect on the order
Get(low, high) ==
  IF impl = "LRU" THEN LRU_get(map, low, high) ELSE Cache_get(cache, low, high)

PreGet(low, high) ==
  IF impl = "LRU" THEN LRU_get(pre.map, low, high)
                  ELSE Cache_get(pre.cache, low, high)

\* the hashes at which get finds an entry
Stored == {k \in Keys : Get(k[1], k[2]) # undefined}

\* place of low in a history of touches
Place(t, low) == CHOOSE i \in DOMAIN t : t[i].low = low

LastKey == <<last.low, last.high>>

\* the last call was an add that created a group in an LRU holding maxSize groups or more
Overflowed ==
  /\ impl = "LRU"
  /\ last.op = "add"
  /\ ~MapHas(pre.map, last.low)
  /\ LRU_size(pre.map) + 1 > maxSize

\* ---- C1 ----
\* C1: an LRU constructed with a positive maxSize never holds more than maxSize
\* groups, whatever add and get calls were made.
C1_LRUSizeBounded ==
  (impl = "LRU" /\ maxSize > 0) => LRU_size(map) <= maxSize

\* an add of a new group to a full LRU has happened
C1_Witness ==
  /\ Overflowed
  /\ maxSize = 2
  /\ LRU_size(pre.map) = 2
  /\ LRU_size(map) = 2

\* ---- C2 ----
\* the groups right after the insertion of the last add, before any eviction
GroupsInserted == MapKeys(pre.map) \cup {last.low}

Evicted == GroupsInserted \ MapKeys(map)

\* the groups whose last touch is the oldest
OldestTouched ==
  {g \in GroupsInserted :
     \A j \in GroupsInserted : Place(touch, g) <= Place(touch, j)}

\* C2: when an add makes the number of groups exceed maxSize, exactly one group
\* is evicted, the one whose last touch by get or add is the oldest; and after
\* add(A), add(B), get(A), add(C) with maxSize 2 the size is 2, A and C are
\* found and B is not.
C2_EvictsLeastRecentlyTouched ==
  /\ Overflowed =>
       /\ Cardinality(Evicted) = 1
       /\ Evicted = OldestTouched
       /\ MapKeys(map) = GroupsInserted \ Evicted
  /\ \A A \in Lows, B \in Lows :
       ( /\ Overflowed
         /\ maxSize = 2
         /\ MapKeys(pre.map) = {A, B}
         /\ pre.touch = <<[low |-> B, by |-> "add"], [low |-> A, by |-> "get"]>> )
       => /\ LRU_size(map) = 2
          /\ \A h \in Highs : LRU_get(map, A, h) = LRU_get(pre.map, A, h)
          /\ \E h \in Highs : LRU_get(map, A, h) # undefined
          /\ LRU_get(map, last.low, last.high) = last.val
          /\ \A h \in Highs : LRU_get(map, B, h) = undefined

\* add(0), add(1), get(0), add(2) with maxSize 2 has happened
C2_Witness ==
  /\ Overflowed
  /\ maxSize = 2
  /\ MapKeys(pre.map) = {0, 1}
  /\ pre.touch = <<[low |-> 1, by |-> "add"], [low |-> 0, by |-> "get"]>>
  /\ last.low = 2
  /\ ~MapHas(map, 1)

\* ---- C3 ----
\* C3: an add to a Cache whose size() equals maxSize leaves size() = 1, the new
\* entry found, and no other hash found.
C3_FlushOnFull ==
  (impl = "Cache" /\ last.op = "add" /\ Cache_size(pre.currentSize) = maxSize)
  => /\ Cache_size(currentSize) = 1
     /\ Cache_get(cache, last.low, last.high) = last.val
     /\ \A k \in Keys \ {LastKey} : Cache_get(cache, k[1], k[2]) = undefined

\* a new entry was added to a Cache holding maxSize = 2 entries
C3_Witness ==
  /\ impl = "Cache"
  /\ last.op = "add"
  /\ maxSize = 2
  /\ pre.currentSize = 2
  /\ PreGet(last.low, last.high) = undefined
  /\ Cardinality({k \in Keys : PreGet(k[1], k[2]) # undefined}) = 2
  /\ currentSize = 1

\* ---- C4 ----
\* C4 as stated: an add to a Cache at a hash that holds an entry leaves size()
\* unchanged, also when the Cache holds maxSize entries.
C4_OverwriteKeepsSize ==
  (impl = "Cache" /\ last.op = "add" /\ PreGet(last.low, last.high) # undefined)
  => Cache_size(currentSize) = Cache_size(pre.currentSize)

\* C4 as amended: an add to a Cache at a hash that holds an entry leaves size()
\* unchanged when the Cache holds fewer (or more) than maxSize entries; when it
\* holds exactly maxSize entries the add resets the Cache and size() is 1.
C4_OverwriteKeepsSizeUnlessFull ==
  (impl = "Cache" /\ last.op = "add" /\ PreGet(last.low, last.high) # undefined)
  => IF Cache_size(pre.currentSize) = maxSize
     THEN Cache_size(currentSize) = 1
     ELSE Cache_size(currentSize) = Cache_size(pre.currentSize)

\* an entry of a Cache that is not full was overwritten with another value
C4_Witness ==
  /\ impl = "Cache"
  /\ last.op = "add"
  /\ maxSize = 2
  /\ pre.currentSize = 1
  /\ PreGet(last.low, last.high) # undefined
  /\ PreGet(last.low, last.high) # last.val
  /\ Get(last.low, last.high) = last.val

\* ---- C5 ----
\* C5: an add to an LRU at a hash that holds an entry leaves size() unchanged
\* and evicts no group.
C5_LRUOverwriteKeepsGroups ==
  (impl = "LRU" /\ last.op = "add" /\ PreGet(last.low, last.high) # undefined)
  => /\ LRU_size(map) = LRU_size(pre.map)
     /\ MapKeys(map) = MapKeys(pre.map)

\* an entry of a full LRU was overwritten
C5_Witness ==
  /\ impl = "LRU"
  /\ last.op = "add"
  /\ maxSize = 2
  /\ LRU_size(pre.map) = 2
  /\ PreGet(last.low, last.high) # undefined
  /\ PreGet(last.low, last.high) # last.val

\* ---- C6 ----
\* C6: no cache object exists whose maxSize is not positive: the constructors
\* reject such an argument.
C6_NonPositiveRejected == maxSize > 0

\* ---- C7 ----
\* C7: in a cache with a positive maxSize, get(k) right after add(k, v) returns
\* v, the score 0 included, which is not the undefined of a missing entry.
C7_GetAfterAdd ==
  (maxSize > 0 /\ last.op = "add")
  => /\ Get(last.low, last.high) = last.val
     /\ Get(last.low, last.high) # undefined

\* the score 0 was added as a new group to a full LRU
C7_Witness ==
  /\ Overflowed
  /\ maxSize > 0
  /\ last.val = <<0>>
  /\ Get(last.low, last.high) = <<0>>

\* ---- C8 ----
\* C8: get returns undefined for every hash that add was never called with,
\* also when another entry has the same low or the same high.
C8_AbsentUnlessAdded ==
  /\ \A k \in Keys \ added : Get(k[1], k[2]) = undefined
  /\ (last.op = "get" /\ LastKey \notin added) => last.ret = undefined

\* get was called with a hash never added, while an entry with the same low
\* and an entry with the same high are stored
C8_Witness ==
  /\ last.op = "get"
  /\ LastKey \notin added
  /\ \E h \in Highs \ {last.high} : Get(last.low, h) # undefined
  /\ \E l \in Lows \ {last.low} : Get(l, last.high) # undefined

\* ---- C9 ----
\* C9: in a Cache with a positive maxSize, size() is the number of hashes at
\* which get finds an entry.
C9_CacheSizeCountsEntries ==
  (impl = "Cache" /\ maxSize > 0) => Cache_size(currentSize) = Cardinality(Stored)

\* a second entry was added under a low that already had one
C9_Witness ==
  /\ impl = "Cache"
  /\ maxSize > 0
  /\ last.op = "add"
  /\ PreGet(last.low, last.high) = undefined
  /\ Cardinality(Stored) = 2
  /\ \A k \in Stored : k[1] = last.low

\* ---- C10 ----
\* C10: size() of an LRU is the number of distinct lows that have a group, and
\* an add at a new high of a stored low leaves it unchanged.
C10_LRUSizeCountsGroups ==
  impl = "LRU" =>
    /\ LRU_size(map) = Cardinality(MapKeys(map))
    /\ (last.op = "add" /\ MapHas(pre.map, last.low)
          /\ PreGet(last.low, last.high) = undefined)
       => LRU_size(map) = LRU_size(pre.map)

\* a second entry was added to a group of an LRU
C10_Witness ==
  /\ impl = "LRU"
  /\ last.op = "add"
  /\ MapHas(pre.map, last.low)
  /\ PreGet(last.low, last.high) = undefined
  /\ Cardinality(DOMAIN MapGet(map, last.low)) = 2
  /\ LRU_size(map) = 2

\* ---- C15 ----
\* C15: an eviction removes every entry of the evicted group and no entry of
\* any other group.
C15_EvictsWholeGroup ==
  Overflowed =>
    /\ \A g \in Evicted : \A h \in Highs : LRU_get(map, g, h) = undefined
    /\ \A g \in Lows \ (Evicted \cup {last.low}) :
         \A h \in Highs : LRU_get(map, g, h) = LRU_get(pre.map, g, h)

\* a group of two entries was evicted while another group stayed
C15_Witness ==
  /\ Overflowed
  /\ maxSize = 2
  /\ \E g \in Evicted : \A h \in Highs : LRU_get(pre.map, g, h) # undefined
  /\ \E g \in MapKeys(pre.map) \ Evicted : \E h \in Highs : LRU_get(map, g, h) # undefined

\* ---- C16 ----
\* the last call was a get of an LRU at a hash never added, whose low has a group
GetMissedInGroup ==
  /\ impl = "LRU"
  /\ last.op = "get"
  /\ MapHas(pre.map, last.low)
  /\ LastKey \notin added

\* C16 as stated: such a get returns undefined and makes the group the most
\* recently used, so that an overflowing add that follows evicts another group.
C16_MissRefreshesGroup ==
  [][GetMissedInGroup =>
       /\ last.ret = undefined
       /\ map[Len(map)].key = last.low
       /\ Overflowed' => last.low \notin Evicted']_vars

\* C16 as amended: such a get returns undefined and makes the group the most
\* recently used, so that an overflowing add that follows evicts another group
\* whenever the LRU holds another group; a group that is the only one (maxSize
\* 1) is evicted by that add.
C16_MissRefreshesGroupAmongOthers ==
  [][GetMissedInGroup =>
       /\ last.ret = undefined
       /\ map[Len(map)].key = last.low
       /\ (Overflowed' /\ LRU_size(map) >= 2) => last.low \notin Evicted'
       /\ (Overflowed' /\ LRU_size(map) = 1 /\ maxSize = 1) => Evicted' = {last.low}]_vars

\* a get missed in the oldest group of a full LRU, which is now the newest
C16_Witness ==
  /\ GetMissedInGroup
  /\ maxSize = 2
  /\ LRU_size(map) = 2
  /\ last.ret = undefined
  /\ pre.map[1].key = last.low
  /\ map[2].key = last.low

\* ---- C17 ----
\* C17: a Cache with a positive maxSize never reports a size() above maxSize,
\* and reports at least 1 after every add.
C17_CacheSizeBounded ==
  (impl = "Cache" /\ maxSize > 0)
  => /\ Cache_size(currentSize) <= maxSize
     /\ last.op = "add" => Cache_size(currentSize) >= 1

\* an add to a Cache that held maxSize entries has happened
C17_Witness ==
  /\ impl = "Cache"
  /\ maxSize = 2
  /\ last.op = "add"
  /\ Cache_size(pre.currentSize) = 2
  /\ Cache_size(currentSize) = 1
  /\ PreGet(last.low, last.high) # undefined

\* ---- C18 ----
\* C18: a get changes neither what any get returns nor size(); in a Cache it
\* changes nothing, in an LRU only the order of the groups.
C18_GetKeepsEntries ==
  last.op = "get" =>
    /\ \A k \in Keys : Get(k[1], k[2]) = PreGet(k[1], k[2])
    /\ impl = "Cache" => (cache = pre.cache /\ Cache_size(currentSize) = Cache_size(pre.currentSize))
    /\ impl = "LRU" =>
         /\ LRU_size(map) = LRU_size(pre.map)
         /\ MapKeys(map) = MapKeys(pre.map)
         /\ \A g \in MapKeys(map) : MapGet(map, g) = MapGet(pre.map, g)

\* a get of an LRU moved a group of two entries from first to last
C18_Witness ==
  /\ impl = "LRU"
  /\ last.op = "get"
  /\ LRU_size(map) = 2
  /\ map # pre.map
  /\ last.ret # undefined
  /\ Cardinality(DOMAIN MapGet(map, last.low)) = 2

\* ---- C11 ----
\* C11: hash(pos) is the xor, from (0, 0), of the key-pairs of the side to
\* move, of every occupied square, of every castling right held, and of file
\* ep mod 8 when ep is not -1.
C11_HashIsXorOfFeatures ==
  hcalls # <<>> =>
    hcalls[Len(hcalls)].ret = XorOfFeatures(hashes, ActiveFeatures(pos))

\* hash was called on a position with a piece on every square, black to move,
\* a castling right of each side held and one lost, and an en-passant square
\* beyond the first rank
C11_Witness ==
  /\ Hashed
  /\ pos.turn = BLACK
  /\ \A i \in Squares : pos.board[i] # Empty
  /\ pos.wc[0] /\ ~pos.wc[1] /\ ~pos.bc[0] /\ pos.bc[1]
  /\ pos.ep = NumFiles + 1

RECURSIVE XorOfKeys(_, _, _)
XorOfKeys(a, b, k) ==
  IF k < 0 THEN 0
  ELSE (2 ^ k) * ((BitOf(a, k) + BitOf(b, k)) % 2) + XorOfKeys(a, b, k - 1)

XorOfPairs(x, y) ==
  <<ToSigned(XorOfKeys(x[1], y[1], KeyBits - 1)),
    ToSigned(XorOfKeys(x[2], y[2], KeyBits - 1))>>

\* C13: the hashes of two positions differ by the xor of the key-pairs of the
\* features in which the positions differ, and a position reached again by
\* undoing a change has its first hash again.
C13_ToggleIsXorOfKey ==
  /\ Len(hcalls) = 2 =>
       XorOfPairs(hcalls[1].ret, hcalls[2].ret)
         = XorOfFeatures(hashes, SymDiff(ActiveFeatures(hcalls[1].pos),
                                         ActiveFeatures(hcalls[2].pos)))
  /\ (Hashed /\ pos \in DOMAIN memo) => hcalls[Len(hcalls)].ret = memo[pos]

\* a castling right of the start position was taken away and given back, with
\* a call of hash after each change
C13_Witness ==
  /\ Len(hcalls) = 2
  /\ hcalls[2].pos = StartPos
  /\ StartPos \in DOMAIN memo
  /\ hcalls[1].pos = [StartPos EXCEPT !.wc[1] = ~StartPos.wc[1]]
  /\ hcalls[1].ret # hcalls[2].ret

\* ---- C14 ----
\* the key of feature f is in the table h
KeyAssigned(h, f) ==
  CASE f[1] = "piece" -> f[2] \in DOMAIN h.piece /\ f[3] \in DOMAIN h.piece[f[2]]
    [] f[1] = "turn" -> f[2] \in DOMAIN h.turn
    [] f[1] = "wc" -> f[3] \in DOMAIN h.wc
    [] f[1] = "bc" -> f[3] \in DOMAIN h.bc
    [] f[1] = "epFile" -> f[3] \in DOMAIN h.epFile

\* C14: while the key table is filled, a key-pair that is in the table stays
\* as it is, and the filled table took two draws per feature.
C14_EachKeyDrawnOnce ==
  [][/\ \A f \in Features :
          KeyAssigned(hashes, f) => KeyOf(hashes', f) = KeyOf(hashes, f)
     /\ (loaded' = Len(pieces)) => draws' = 2 * Cardinality(Features)]_vars

\* ---- C19 ----
\* the entry added last under a hash, if any was
LatestOf(low, high) ==
  IF <<low, high>> \in DOMAIN latest THEN <<latest[<<low, high>>]>> ELSE undefined

\* C19: an LRU and a Cache of one positive maxSize that were given the same
\* calls agree while fewer than maxSize distinct hashes have been added: a get
\* returns in both the entry added last under the hash, or undefined.
C19_CachesAgreeBelowMaxSize ==
  Cardinality(added) < maxSize =>
    /\ last.op = "get" =>
         /\ last.ret = last.retCache
         /\ last.ret = LatestOf(last.low, last.high)
    /\ \A low \in Lows, high \in Highs :
         /\ LRU_get(map, low, high) = LatestOf(low, high)
         /\ Cache_get(cache, low, high) = LatestOf(low, high)

\* with two hashes added, one of them twice with two entries, and room for a
\* third, a get returned the later entry
C19_Witness ==
  /\ impl = "both"
  /\ Cardinality(added) = 2
  /\ maxSize > 2
  /\ last.op = "get"
  /\ last.ret = <<1>>
  /\ last.retCache = <<1>>
  /\ \E k \in added : k # <<last.low, last.high>> /\ latest[k] = 0
  /\ LRU_size(map) = 2
  /\ Cache_size(currentSize) = 2

====
